---- MODULE Spec2Model ----
(***************************************************************************)
(* A model of OutlineServer (client/src/www/app/outline_server_repository/ *)
(* server.ts): one session object, its constructor, connect(),             *)
(* disconnect(), and the module-level helper fetchTunnelConfig(), together *)
(* with the three collaborators the session calls (resource fetcher,       *)
(* tunnel-config parser, VPN engine), whose answers are inputs.            *)
(*                                                                         *)
(* Strings the code only stores and compares are TLA+ strings.  A fetched  *)
(* body is a sequence of characters, so that String.trim() is computed.    *)
(* An error message is a sequence of string pieces, so that "the message   *)
(* contains the name" can be stated.  A thrown value is a record           *)
(*   [classes, nullish, errorCode, msg, cause]                             *)
(* where classes is the set of classes the value is an instance of,        *)
(* nullish says the value is null/undefined, and errorCode and cause are   *)
(* sequences of length 0 (property absent) or 1 (property present).        *)
(***************************************************************************)
EXTENDS Naturals, Sequences, FiniteSets, TLC

(***************************************************************************)
(* Bounds of the model.                                                    *)
(***************************************************************************)
\* Longest body the resource fetcher returns, in characters.
MaxBodyLen == 3
\* The engine's error codes that errors.fromErrorCode maps are 1..MaxCode.
MaxCode == 2

(***************************************************************************)
(* Values.                                                                 *)
(***************************************************************************)
DYNAMIC_CONNECTION == "DYNAMIC_CONNECTION"
STATIC_CONNECTION == "STATIC_CONNECTION"

\* Nothing / undefined for an optional value; Some(v) for a present one.
None == <<>>
Some(v) == <<v>>

\* Characters of a fetched body: one white-space character and two others.
Chars == {" ", "A", "B"}
WhiteSpace == {" "}

Bodies == UNION {[1..n -> Chars] : n \in 0..MaxBodyLen}

\* Number.prototype.toString() on the ports the model uses.
Ports == {443, 8080}
toString(port) == IF port = 443 THEN "443" ELSE "8080"

\* The tunnel configurations the model uses; firstHop is {host, port}.
ConfigA == [firstHop |-> [host |-> "a.example", port |-> 443]]
ConfigB == [firstHop |-> [host |-> "b.example", port |-> 8080]]
TunnelConfigs == {ConfigA, ConfigB}

\* net.joinHostPort for host names that are not IPv6 literals.
joinHostPort(host, port) == host \o ":" \o port

(***************************************************************************)
(* Thrown values.                                                          *)
(***************************************************************************)
Thrown(classes, nullish, errorCode, msg, cause) ==
  [classes |-> classes, nullish |-> nullish, errorCode |-> errorCode,
   msg |-> msg, cause |-> cause]

instanceof(v, class) == class \in v.classes

\* JavaScript truthiness of an errorCode property: absent, 0 is falsy.
Truthy(errorCode) == errorCode # None /\ errorCode[1] # 0

\* A value a collaborator may throw or reject with:
\*   undefined; a plain object; a plain Error; a PlatformError; a
\*   SessionProviderError; a subclass of SessionProviderError
\* each without an errorCode property or with one in 0..MaxCode.
RawShapes ==
  { {}, {"Error"}, {"Error", "CustomError", "PlatformError"},
    {"Error", "CustomError", "SessionProviderError"},
    {"Error", "CustomError", "SessionProviderError", "SessionProviderErrorSubclass"} }

Codes == 0..MaxCode
KnownCodes == 1..MaxCode

Undefined == Thrown({}, TRUE, None, None, None)

RawValues ==
  {Undefined} \cup
  { Thrown(c, FALSE, e, None, None) :
      c \in RawShapes, e \in {None} \cup {Some(k) : k \in Codes} }

\* errors.ServerAccessKeyInvalid(message, {cause})
ServerAccessKeyInvalid(msg, cause) ==
  Thrown({"Error", "CustomError", "ServerAccessKeyInvalid"}, FALSE, None, msg, cause)

\* errors.ProxyConnectionFailure(message, {cause})
ProxyConnectionFailure(msg, cause) ==
  Thrown({"Error", "CustomError", "ProxyConnectionFailure"}, FALSE, None, msg, cause)

\* errors.RegularNativeError()
RegularNativeError ==
  Thrown({"Error", "CustomError", "NativeError", "RegularNativeError"},
         FALSE, None, None, None)

\* errors.fromErrorCode(code): the typed error of a known code.
fromErrorCode(code) ==
  Thrown({"Error", "CustomError", "NativeError"}, FALSE, Some(code), None, None)

\* What reading cause.errorCode of null/undefined throws.
TypeError == Thrown({"Error", "TypeError"}, FALSE, None, None, None)

EmptyConfigMessage == <<"Got empty config from dynamic key.">>
ParseFailedMessage ==
  <<"Failed to parse VPN information fetched from dynamic access key.">>
ConnectFailedMessage(name) == <<"Failed to connect to server ", name, ".">>

(***************************************************************************)
(* Constructor inputs.                                                     *)
(***************************************************************************)
\* What parseAccessKey returns for the access keys the model uses:
\* a DynamicServiceConfig {name, transportConfigLocation} or a
\* StaticServiceConfig {name, tunnelConfig}; outlineFlag says whether the
\* key text includes 'outline=1'.
DynamicServiceConfig(name, hostname, port) ==
  [class |-> "DynamicServiceConfig", name |-> name,
   transportConfigLocation |-> Some([hostname |-> hostname, port |-> port]),
   tunnelConfig |-> None, outlineFlag |-> FALSE]

StaticServiceConfig(name, tunnelConfig, outlineFlag) ==
  [class |-> "StaticServiceConfig", name |-> name,
   transportConfigLocation |-> None,
   tunnelConfig |-> Some(tunnelConfig), outlineFlag |-> outlineFlag]

AccessKeys ==
  { DynamicServiceConfig(None, "conf.example", "443"),
    DynamicServiceConfig(None, "conf.example", "8443"),
    DynamicServiceConfig(Some("Key Name"), "conf.example", "443"),
    StaticServiceConfig(None, ConfigA, TRUE),
    StaticServiceConfig(None, ConfigB, FALSE) }

NameArgs == {None, Some("My Server")}

\* The Localizer passed to the constructor.
localize(messageId) == "localized " \o messageId

(***************************************************************************)
(* State.                                                                  *)
(***************************************************************************)
VARIABLES
  \* fields of OutlineServer
  type, id, name, accessKey, tunnelConfigLocation, displayAddress,
  staticTunnelConfig,
  \* the connect() call in flight: where it is suspended, its local
  \* tunnelConfig, and the StartRequestJson it submitted
  cpc, tunnelConfig, request,
  \* the disconnect() call in flight
  dpc,
  \* the VPN engine: whether the tunnel of the session's id is running,
  \* the operations ("start", "stop") submitted for the id and not yet
  \* completed, in the order the engine serves them, and the operation it
  \* completed last ("none" before the first)
  running, engineQueue, engineLast,
  \* the answer of the checkRunning() that has just returned, if any
  checked,
  \* observation of the latest call, reset when the next call is made:
  \* how the connect() or the disconnect() ended, the session fields when
  \* the call was made, the body the fetch returned, how often the call
  \* invoked the fetcher, the parser and the engine's start, and the value
  \* a collaborator threw or rejected with, with the collaborator
  connectResult, disconnectResult, before, fetched, calls, thrown

vars ==
  <<type, id, name, accessKey, tunnelConfigLocation, displayAddress,
    staticTunnelConfig, cpc, tunnelConfig, request, dpc, running,
    engineQueue, engineLast, checked, connectResult, disconnectResult, before, fetched, calls, thrown>>

fieldVars ==
  <<type, id, name, accessKey, tunnelConfigLocation, staticTunnelConfig>>

\* The outcome of a call: not made yet, in flight, resolved, or rejected
\* with a thrown value.
NotCalled == [state |-> "none", error |-> None]
Pending == [state |-> "pending", error |-> None]
Resolved == [state |-> "resolved", error |-> None]
Rejected(e) == [state |-> "rejected", error |-> Some(e)]

\* A collaborator ("fetch", "parse", "start", "stop") failed with value.
Failure(by, value) == Some([by |-> by, value |-> value])

NoCalls == [fetch |-> 0, parse |-> 0, start |-> 0]

\* The session fields a caller can observe.
Fields ==
  [id |-> id, name |-> name, type |-> type, displayAddress |-> displayAddress]

(***************************************************************************)
(* constructor                                                             *)
(***************************************************************************)
\* this.name after the constructor's defaulting (lines 49, 56-64, 74-80).
constructedName(nameArg, serviceConfig) ==
  LET given == IF nameArg # None THEN nameArg ELSE serviceConfig.name
  IN  IF given # None /\ given[1] # ""
      THEN given[1]
      ELSE IF serviceConfig.class = "DynamicServiceConfig"
           THEN LET loc == serviceConfig.transportConfigLocation[1]
                IN  IF loc.port = "443" THEN loc.hostname
                    ELSE joinHostPort(loc.hostname, loc.port)
           ELSE localize(IF serviceConfig.outlineFlag
                         THEN "server-default-name-outline"
                         ELSE "server-default-name")

\* The constructor showing the host alone when the port is 443.
constructedAddress_elided(serviceConfig) ==
  IF serviceConfig.class = "DynamicServiceConfig"
  THEN ""
  ELSE LET firstHop == serviceConfig.tunnelConfig[1].firstHop
       IN  IF firstHop.port = 443 THEN firstHop.host
           ELSE joinHostPort(firstHop.host, toString(firstHop.port))

\* this.displayAddress after the constructor (lines 54, 68-72).
constructedAddress(serviceConfig) ==
  IF serviceConfig.class = "DynamicServiceConfig"
  THEN ""
  ELSE LET firstHop == serviceConfig.tunnelConfig[1].firstHop
       IN  joinHostPort(firstHop.host, toString(firstHop.port))

Init ==
  \E key \in AccessKeys, nameArg \in NameArgs :
    /\ id = "server-0"
    /\ accessKey = key
    /\ name = constructedName(nameArg, key)
    /\ type = IF key.class = "DynamicServiceConfig"
              THEN DYNAMIC_CONNECTION ELSE STATIC_CONNECTION
    /\ tunnelConfigLocation = key.transportConfigLocation
    /\ staticTunnelConfig = key.tunnelConfig
    /\ displayAddress = constructedAddress(key)
    /\ cpc = "idle"
    /\ tunnelConfig = None
    /\ request = None
    /\ dpc = "idle"
    /\ running = FALSE
    /\ engineQueue = <<>>
    /\ engineLast = "none"
    /\ checked = None
    /\ connectResult = NotCalled
    /\ disconnectResult = NotCalled
    /\ before = Fields
    /\ fetched = None
    /\ calls = NoCalls
    /\ thrown = None

(***************************************************************************)
(* fetchTunnelConfig                                                       *)
(***************************************************************************)
\* String.prototype.trim(): drop leading and trailing white space.
RECURSIVE trimStart(_)
trimStart(s) ==
  IF s # <<>> /\ Head(s) \in WhiteSpace THEN trimStart(Tail(s)) ELSE s

RECURSIVE trimEnd(_)
trimEnd(s) ==
  IF s # <<>> /\ s[Len(s)] \in WhiteSpace
  THEN trimEnd(SubSeq(s, 1, Len(s) - 1)) ELSE s

trim(s) == trimEnd(trimStart(s))

\* parseTunnelConfig: the documents "A" and "B" describe ConfigA and
\* ConfigB; any other text is malformed and makes the parser throw.
parseTunnelConfig(text) ==
  IF text = <<"A">> THEN Some(ConfigA)
  ELSE IF text = <<"B">> THEN Some(ConfigB)
  ELSE None

\* What the parser may throw on a malformed text: any raw value, or a
\* ServerAccessKeyInvalid of its own carrying the empty-config message.
ParserThrows ==
  RawValues \cup {ServerAccessKeyInvalid(EmptyConfigMessage, None)}

Return(config, parsed) ==
  [ok |-> TRUE, config |-> Some(config), error |-> None, parsed |-> parsed]
Throw(e, parsed) ==
  [ok |-> FALSE, config |-> None, error |-> Some(e), parsed |-> parsed]

\* fetchTunnelConfig with the trim of line 155 left out.
fetchTunnelConfig_untrimmed(body, perr) ==
  IF body = <<>>
  THEN Throw(ServerAccessKeyInvalid(EmptyConfigMessage, None), FALSE)
  ELSE IF parseTunnelConfig(trim(body)) # None
       THEN Return(parseTunnelConfig(trim(body))[1], TRUE)
       ELSE IF instanceof(perr, "SessionProviderError")
            THEN Throw(perr, TRUE)
            ELSE Throw(ServerAccessKeyInvalid(ParseFailedMessage, Some(perr)),
                       TRUE)

\* fetchTunnelConfig with the instanceof test of lines 164-166 left out.
fetchTunnelConfig_alwaysWrap(body, perr) ==
  IF trim(body) = <<>>
  THEN Throw(ServerAccessKeyInvalid(EmptyConfigMessage, None), FALSE)
  ELSE IF parseTunnelConfig(trim(body)) # None
       THEN Return(parseTunnelConfig(trim(body))[1], TRUE)
       ELSE Throw(ServerAccessKeyInvalid(ParseFailedMessage, Some(perr)), TRUE)

\* fetchTunnelConfig answering from the config of the previous start
\* request when there is one.
fetchTunnelConfig_cached(body, perr) ==
  IF request # None
  THEN Return(request[1].config, FALSE)
  ELSE IF trim(body) = <<>>
       THEN Throw(ServerAccessKeyInvalid(EmptyConfigMessage, None), FALSE)
       ELSE IF parseTunnelConfig(trim(body)) # None
            THEN Return(parseTunnelConfig(trim(body))[1], TRUE)
            ELSE IF instanceof(perr, "SessionProviderError")
                 THEN Throw(perr, TRUE)
                 ELSE Throw(ServerAccessKeyInvalid(ParseFailedMessage,
                                                   Some(perr)), TRUE)

\* fetchTunnelConfig falling back to a built-in config when the parser
\* throws.
fetchTunnelConfig_fallback(body, perr) ==
  IF trim(body) = <<>>
  THEN Throw(ServerAccessKeyInvalid(EmptyConfigMessage, None), FALSE)
  ELSE IF parseTunnelConfig(trim(body)) # None
       THEN Return(parseTunnelConfig(trim(body))[1], TRUE)
       ELSE Return(ConfigA, TRUE)

\* fetchTunnelConfig from the point where urlFetcher.fetch has resolved with
\* body (lines 153-172); perr is what parseTunnelConfig throws when the text
\* is malformed.  parsed says whether the parser was called.
fetchTunnelConfig(body, perr) ==
  LET responseBody == trim(body)
  IN  IF responseBody = <<>>
      THEN Throw(ServerAccessKeyInvalid(EmptyConfigMessage, None), FALSE)
      ELSE IF parseTunnelConfig(responseBody) # None
           THEN Return(parseTunnelConfig(responseBody)[1], TRUE)
           ELSE IF instanceof(perr, "SessionProviderError")
                THEN Throw(perr, TRUE)
                ELSE Throw(ServerAccessKeyInvalid(ParseFailedMessage, Some(perr)),
                           TRUE)

\* fetchTunnelConfig when urlFetcher.fetch rejects with cause (line 154 is
\* outside the try): the value fetchTunnelConfig rejects with.
fetchFailure(cause) == cause

(***************************************************************************)
(* connect                                                                 *)
(***************************************************************************)
\* The catch block of connect() with the errorCode branch of lines 118-120
\* left out.
connectCatch_noCode(cause, serverName) ==
  IF instanceof(cause, "PlatformError") THEN cause
  ELSE IF cause.nullish THEN TypeError
  ELSE ProxyConnectionFailure(ConnectFailedMessage(serverName), Some(cause))

\* The catch block of connect() testing the error code before the class.
connectCatch_codeFirst(cause, serverName) ==
  IF cause.nullish THEN TypeError
  ELSE IF Truthy(cause.errorCode) THEN fromErrorCode(cause.errorCode[1])
  ELSE IF instanceof(cause, "PlatformError") THEN cause
  ELSE ProxyConnectionFailure(ConnectFailedMessage(serverName), Some(cause))

\* The catch block of connect() (lines 110-126): the value connect() rejects
\* with when vpnApi.start rejected with cause.
connectCatch(cause, serverName) ==
  IF instanceof(cause, "PlatformError") THEN cause
  ELSE IF cause.nullish THEN TypeError
  ELSE IF Truthy(cause.errorCode) THEN fromErrorCode(cause.errorCode[1])
  ELSE ProxyConnectionFailure(ConnectFailedMessage(serverName), Some(cause))

\* A start request carrying the name in place of the id.
StartRequest_nameAsId(config) == [id |-> name, name |-> name, config |-> config]

\* The StartRequestJson of lines 104-108.
StartRequest(config) == [id |-> id, name |-> name, config |-> config]

\* connect() is called (lines 88-94, 99-109).  A dynamic session issues the
\* fetch and suspends; a static one submits its stored config to the engine.
ConnectCall ==
  /\ cpc = "idle" /\ dpc = "idle"
  /\ before' = Fields
  /\ connectResult' = Pending
  /\ fetched' = None
  /\ thrown' = None
  /\ disconnectResult' = NotCalled
  /\ IF type = DYNAMIC_CONNECTION
     THEN /\ cpc' = "fetch"
          /\ calls' = [fetch |-> 1, parse |-> 0, start |-> 0]
          /\ tunnelConfig' = None
          /\ UNCHANGED <<request, engineQueue>>
     ELSE /\ cpc' = "start"
          /\ calls' = [fetch |-> 0, parse |-> 0, start |-> 1]
          /\ tunnelConfig' = staticTunnelConfig
          /\ request' = Some(StartRequest(staticTunnelConfig[1]))
          /\ engineQueue' = Append(engineQueue, "start")
  /\ checked' = None
  /\ UNCHANGED <<fieldVars, displayAddress, dpc, running, engineLast>>

\* urlFetcher.fetch rejects with cause: connect() rejects (line 91 is
\* outside the try of line 103).
FetchReject(cause) ==
  /\ cpc = "fetch"
  /\ cpc' = "idle"
  /\ connectResult' = Rejected(fetchFailure(cause))
  /\ thrown' = Failure("fetch", cause)
  /\ checked' = None
  /\ UNCHANGED <<fieldVars, displayAddress, tunnelConfig, request, dpc,
                 running, engineQueue, engineLast, disconnectResult, before,
                 fetched, calls>>

\* connect() deriving the address only when none is displayed yet.
FetchResolve_staleAddress(body, perr) ==
  /\ cpc = "fetch"
  /\ LET r == fetchTunnelConfig(body, perr)
     IN  /\ fetched' = Some(body)
         /\ IF r.ok
            THEN /\ tunnelConfig' = r.config
                 /\ displayAddress' =
                      IF displayAddress # "" THEN displayAddress
                      ELSE joinHostPort(r.config[1].firstHop.host,
                                        toString(r.config[1].firstHop.port))
                 /\ request' = Some(StartRequest(r.config[1]))
                 /\ calls' = [calls EXCEPT !.parse = 1, !.start = 1]
                 /\ cpc' = "start"
                 /\ engineQueue' = Append(engineQueue, "start")
                 /\ UNCHANGED <<connectResult, thrown>>
            ELSE /\ cpc' = "idle"
                 /\ connectResult' = Rejected(r.error[1])
                 /\ calls' = [calls EXCEPT !.parse = IF r.parsed THEN 1 ELSE 0]
                 /\ thrown' = IF r.parsed THEN Failure("parse", perr) ELSE None
                 /\ UNCHANGED <<tunnelConfig, displayAddress, request,
                                engineQueue>>
  /\ checked' = None
  /\ UNCHANGED <<fieldVars, dpc, running, engineLast, disconnectResult,
                 before>>

\* urlFetcher.fetch resolves with body: the rest of fetchTunnelConfig, then
\* lines 95-98 and 103-109 up to the await of vpnApi.start.
FetchResolve(body, perr) ==
  /\ cpc = "fetch"
  /\ LET r == fetchTunnelConfig(body, perr)
     IN  /\ fetched' = Some(body)
         /\ IF r.ok
            THEN /\ tunnelConfig' = r.config
                 /\ displayAddress' =
                      joinHostPort(r.config[1].firstHop.host,
                                   toString(r.config[1].firstHop.port))
                 /\ request' = Some(StartRequest(r.config[1]))
                 /\ calls' = [calls EXCEPT !.parse = 1, !.start = 1]
                 /\ cpc' = "start"
                 /\ engineQueue' = Append(engineQueue, "start")
                 /\ UNCHANGED <<connectResult, thrown>>
            ELSE /\ cpc' = "idle"
                 /\ connectResult' = Rejected(r.error[1])
                 /\ calls' = [calls EXCEPT !.parse = IF r.parsed THEN 1 ELSE 0]
                 /\ thrown' = IF r.parsed THEN Failure("parse", perr) ELSE None
                 /\ UNCHANGED <<tunnelConfig, displayAddress, request,
                                engineQueue>>
  /\ checked' = None
  /\ UNCHANGED <<fieldVars, dpc, running, engineLast, disconnectResult,
                 before>>

\* vpnApi.start resolves: connect() resolves.
StartResolve ==
  /\ cpc = "start"
  /\ Head(engineQueue) = "start"
  /\ engineQueue' = Tail(engineQueue)
  /\ engineLast' = "start"
  /\ cpc' = "idle"
  /\ running' = TRUE
  /\ connectResult' = Resolved
  /\ checked' = None
  /\ UNCHANGED <<fieldVars, displayAddress, tunnelConfig, request, dpc,
                 disconnectResult, before, fetched, calls, thrown>>

\* vpnApi.start rejects with cause: the catch block decides what connect()
\* rejects with.
StartReject(cause) ==
  /\ cpc = "start"
  /\ Head(engineQueue) = "start"
  /\ engineQueue' = Tail(engineQueue)
  /\ engineLast' = "start"
  /\ cpc' = "idle"
  /\ connectResult' = Rejected(connectCatch(cause, name))
  /\ thrown' = Failure("start", cause)
  /\ checked' = None
  /\ UNCHANGED <<fieldVars, displayAddress, tunnelConfig, request, dpc,
                 running, disconnectResult, before, fetched, calls>>

(***************************************************************************)
(* disconnect                                                              *)
(***************************************************************************)
\* disconnect() with the reset of lines 133-135 left out.
addressAfterStop_keep(serverType, address) == address

\* disconnect() resetting the address whatever the type of the session.
addressAfterStop_always(serverType, address) == ""

\* this.displayAddress after vpnApi.stop resolved (lines 133-135).
addressAfterStop(serverType, address) ==
  IF serverType = DYNAMIC_CONNECTION THEN "" ELSE address

\* disconnect() rethrowing what the engine rejected with.
disconnectCatch_rethrow(e) == e

\* The catch block of disconnect() (lines 136-139).
disconnectCatch(e) == RegularNativeError

\* disconnect() is called: vpnApi.stop(this.id) is submitted (line 131).
DisconnectCall ==
  /\ cpc = "idle" /\ dpc = "idle"
  /\ dpc' = "stop"
  /\ before' = Fields
  /\ disconnectResult' = Pending
  /\ connectResult' = NotCalled
  /\ fetched' = None
  /\ calls' = NoCalls
  /\ thrown' = None
  /\ engineQueue' = Append(engineQueue, "stop")
  /\ checked' = None
  /\ UNCHANGED <<fieldVars, displayAddress, cpc, tunnelConfig, request,
                 running, engineLast>>

\* disconnect() clearing the name along with the address.
StopResolve_clearsName ==
  /\ dpc = "stop"
  /\ Head(engineQueue) = "stop"
  /\ engineQueue' = Tail(engineQueue)
  /\ engineLast' = "stop"
  /\ checked' = None
  /\ dpc' = "idle"
  /\ running' = FALSE
  /\ displayAddress' = addressAfterStop(type, displayAddress)
  /\ name' = ""
  /\ disconnectResult' = Resolved
  /\ UNCHANGED <<type, id, accessKey, tunnelConfigLocation,
                 staticTunnelConfig, cpc, tunnelConfig, request,
                 connectResult, before, fetched, calls, thrown>>

\* vpnApi.stop resolves.
StopResolve ==
  /\ dpc = "stop"
  /\ Head(engineQueue) = "stop"
  /\ engineQueue' = Tail(engineQueue)
  /\ engineLast' = "stop"
  /\ checked' = None
  /\ dpc' = "idle"
  /\ running' = FALSE
  /\ displayAddress' = addressAfterStop(type, displayAddress)
  /\ disconnectResult' = Resolved
  /\ UNCHANGED <<fieldVars, cpc, tunnelConfig, request, connectResult,
                 before, fetched, calls, thrown>>

\* vpnApi.stop rejects with e.
StopReject(e) ==
  /\ dpc = "stop"
  /\ Head(engineQueue) = "stop"
  /\ engineQueue' = Tail(engineQueue)
  /\ engineLast' = "stop"
  /\ checked' = None
  /\ dpc' = "idle"
  /\ disconnectResult' = Rejected(disconnectCatch(e))
  /\ thrown' = Failure("stop", e)
  /\ UNCHANGED <<fieldVars, displayAddress, cpc, tunnelConfig, request,
                 running, connectResult, before, fetched, calls>>

(***************************************************************************)
(* checkRunning                                                            *)
(***************************************************************************)
\* checkRunning() answering from the session's own display state.
checkRunning_fromAddress == displayAddress # ""

\* What checkRunning() returns: the answer of vpnApi.isRunning(this.id)
\* (line 143).
checkRunning == running

\* checkRunning() is called and the engine answers.
CheckRunning ==
  /\ checked' = Some(checkRunning)
  /\ UNCHANGED <<fieldVars, displayAddress, cpc, tunnelConfig, request, dpc,
                 running, engineQueue, engineLast, connectResult,
                 disconnectResult, before, fetched, calls, thrown>>

(***************************************************************************)
(* Specification: callers serialize their calls (at most one connect() or  *)
(* disconnect() in flight).                                                *)
(***************************************************************************)
Next ==
  \/ ConnectCall
  \/ \E cause \in RawValues : FetchReject(cause)
  \/ \E body \in Bodies, perr \in ParserThrows : FetchResolve(body, perr)
  \/ StartResolve
  \/ \E cause \in RawValues : StartReject(cause)
  \/ DisconnectCall
  \/ StopResolve
  \/ \E e \in RawValues : StopReject(e)
  \/ CheckRunning

Spec == Init /\ [][Next]_vars

(***************************************************************************)
(* Specification: as Spec, and the caller may also issue a disconnect()    *)
(* while a connect() is in flight.  The engine serves the operations of    *)
(* the id in the order they were submitted.                                *)
(***************************************************************************)
\* disconnect() is called while connect() is suspended at its fetch or at
\* vpnApi.start: vpnApi.stop(this.id) is submitted (line 131).
DisconnectDuringConnect ==
  /\ cpc # "idle" /\ dpc = "idle"
  /\ dpc' = "stop"
  /\ disconnectResult' = Pending
  /\ engineQueue' = Append(engineQueue, "stop")
  /\ checked' = None
  /\ UNCHANGED <<fieldVars, displayAddress, cpc, tunnelConfig, request,
                 running, engineLast, connectResult, before, fetched, calls,
                 thrown>>

\* The inputs of the interleaved runs: an empty, a malformed and the two
\* valid documents; undefined, a plain object without error code and a
\* typed platform error with error code as the values a collaborator
\* fails with.
RaceBodies == {<<>>, <<"A">>, <<"B">>, <<"A", "B">>} \cap Bodies
RaceValues ==
  { Undefined,
    Thrown({}, FALSE, None, None, None),
    Thrown({"Error", "CustomError", "PlatformError"}, FALSE, Some(1), None, None) }

NextRace ==
  \/ ConnectCall
  \/ \E cause \in RaceValues : FetchReject(cause)
  \/ \E body \in RaceBodies, perr \in RaceValues : FetchResolve(body, perr)
  \/ StartResolve
  \/ \E cause \in RaceValues : StartReject(cause)
  \/ DisconnectCall
  \/ DisconnectDuringConnect
  \/ StopResolve
  \/ \E e \in RaceValues : StopReject(e)
  \/ CheckRunning

SpecRace == Init /\ [][NextRace]_vars

(***************************************************************************)
(* Properties.                                                             *)
(***************************************************************************)
\* The latest call made a collaborator fail: which one, and with what.
ThrownBy(by) == thrown # None /\ thrown[1].by = by
ThrownValue == thrown[1].value

\* The value the latest connect() / disconnect() rejected with.
ConnectError == connectResult.error[1]
DisconnectError == disconnectResult.error[1]

\* A body that is empty or consists of white space only.
Blank(body) == \A i \in 1..Len(body) : body[i] \in WhiteSpace

\* The error of an empty dynamic document.
EmptyConfigError == ServerAccessKeyInvalid(EmptyConfigMessage, None)

\* The config a fetched body describes (None when it describes none), and
\* the address of a config.
DocumentOf(body) == parseTunnelConfig(trim(body))
AddressOf(config) ==
  joinHostPort(config.firstHop.host, toString(config.firstHop.port))

\* C1: for a dynamic session displayAddress is empty after construction,
\* and a connect() that fails never leaves a displayAddress that was empty
\* when it was called non-empty.  The code breaks it: a start failure
\* leaves the newly resolved address in place.
C1_AddressOnlyAfterSuccessfulConnect ==
  type = DYNAMIC_CONNECTION =>
    /\ (connectResult.state = "none" /\ disconnectResult.state = "none"
          => displayAddress = "")
    /\ (connectResult.state = "rejected" /\ before.displayAddress = ""
          => displayAddress = "")

\* C2: after a connect() that failed, the session's fields (id, name, type,
\* displayAddress) equal their values before the call.  The code breaks it.
C2_FailedConnectRestoresFields ==
  connectResult.state = "rejected" => Fields = before

\* C3: for a dynamic session, after a disconnect() that completed
\* successfully displayAddress is empty, and while a connect() called with
\* an empty address has not resolved its config the address stays empty.
C3_DisconnectResetsAddress ==
  type = DYNAMIC_CONNECTION =>
    /\ (disconnectResult.state = "resolved" => displayAddress = "")
    /\ (cpc = "fetch" /\ before.displayAddress = "" => displayAddress = "")

\* C3 witness: a successful disconnect() emptied the address that a
\* preceding connect() had resolved to the first hop of ConfigB.
C3_Witness ==
  /\ type = DYNAMIC_CONNECTION
  /\ disconnectResult.state = "resolved"
  /\ before.displayAddress = "b.example:8080"
  /\ displayAddress = ""

\* C4: when the engine's stop fails, whatever it rejected with, disconnect()
\* rejects with RegularNativeError and displayAddress keeps the value it
\* had before the call.
C4_StopFailureIsRegularNativeError ==
  ThrownBy("stop") =>
    /\ disconnectResult = Rejected(RegularNativeError)
    /\ displayAddress = before.displayAddress

\* C4 witness: the stop of a dynamic session with a resolved address was
\* rejected with a typed platform error carrying an error code.
C4_Witness ==
  /\ ThrownBy("stop")
  /\ instanceof(ThrownValue, "PlatformError")
  /\ ThrownValue.errorCode = Some(1)
  /\ type = DYNAMIC_CONNECTION
  /\ displayAddress # ""
  /\ disconnectResult.state = "rejected"

\* C5: a failure of the fetch is surfaced unchanged only if it is a
\* SessionProviderError; any other fetch failure is surfaced as
\* ServerAccessKeyInvalid wrapping the cause.  The code breaks it.
C5_FetchFailureWrapped ==
  ThrownBy("fetch") =>
    /\ connectResult.state = "rejected"
    /\ IF instanceof(ThrownValue, "SessionProviderError")
       THEN ConnectError = ThrownValue
       ELSE /\ instanceof(ConnectError, "ServerAccessKeyInvalid")
            /\ ConnectError.cause = Some(ThrownValue)

\* C6: when the fetched body is empty or white space only, connect() fails
\* with ServerAccessKeyInvalid carrying the empty-config message, and in
\* that call neither the parser nor the engine's start is invoked.
C6_EmptyBodyRejected ==
  fetched # None /\ Blank(fetched[1]) =>
    /\ connectResult = Rejected(EmptyConfigError)
    /\ calls.parse = 0
    /\ calls.start = 0

\* C6 witness: a connect() whose fetch returned two blanks has failed.
C6_Witness ==
  /\ fetched = Some(<<" ", " ">>)
  /\ connectResult.state = "rejected"

\* C7: when the parser throws, connect() fails with the parser's error
\* itself if that is a SessionProviderError, and otherwise with
\* ServerAccessKeyInvalid carrying the parser's error as cause; either way
\* the error differs from the empty-config error.
C7_ParseFailure ==
  ThrownBy("parse") =>
    /\ connectResult.state = "rejected"
    /\ IF instanceof(ThrownValue, "SessionProviderError")
       THEN ConnectError = ThrownValue
       ELSE /\ instanceof(ConnectError, "ServerAccessKeyInvalid")
            /\ ConnectError.cause = Some(ThrownValue)
    /\ ConnectError # EmptyConfigError

\* C7 witness: the parser threw an error derived from SessionProviderError
\* on a malformed document and connect() has failed.
C7_Witness ==
  /\ ThrownBy("parse")
  /\ instanceof(ThrownValue, "SessionProviderErrorSubclass")
  /\ fetched = Some(<<"A", "B">>)
  /\ connectResult.state = "rejected"

\* C8: when the engine's start rejects with a value that is not a typed
\* platform error and carries a known error code c, connect() fails with
\* fromErrorCode(c) and not with ProxyConnectionFailure.
C8_KnownCodeMapped ==
  /\ ThrownBy("start")
  /\ ~instanceof(ThrownValue, "PlatformError")
  /\ ~ThrownValue.nullish
  /\ ThrownValue.errorCode # None
  /\ ThrownValue.errorCode[1] \in KnownCodes
  => /\ connectResult = Rejected(fromErrorCode(ThrownValue.errorCode[1]))
     /\ ~instanceof(ConnectError, "ProxyConnectionFailure")

\* C8 witness: start rejected with a plain object of error code 2.
C8_Witness ==
  /\ thrown = Failure("start", Thrown({}, FALSE, Some(2), None, None))
  /\ connectResult.state = "rejected"

\* C9: when the engine's start rejects with a value that is not a typed
\* platform error and carries no error code, connect() fails with
\* ProxyConnectionFailure that has the value as cause and the name sent in
\* the start request in its message.  The code breaks it.
C9_UnrecognizedShapeWrapped ==
  /\ ThrownBy("start")
  /\ ~instanceof(ThrownValue, "PlatformError")
  /\ ThrownValue.errorCode = None
  => /\ connectResult.state = "rejected"
     /\ instanceof(ConnectError, "ProxyConnectionFailure")
     /\ ConnectError.cause = Some(ThrownValue)
     /\ \E i \in 1..Len(ConnectError.msg) : ConnectError.msg[i] = name
     /\ request[1].name = name

\* C10: every connect() of a dynamic session issues exactly one fetch, and
\* the config it submits to the engine's start, and the displayAddress, are
\* those of the body that this call fetched.
C10_FreshResolution ==
  type = DYNAMIC_CONNECTION =>
    /\ (connectResult.state # "none" => calls.fetch = 1)
    /\ (cpc = "start" \/ connectResult.state = "resolved" =>
          /\ fetched # None
          /\ request # None
          /\ DocumentOf(fetched[1]) = Some(request[1].config)
          /\ displayAddress = AddressOf(request[1].config))

\* C10 witness: a connect() succeeded whose document differs from the one
\* an earlier connect() had resolved.
C10_Witness ==
  /\ type = DYNAMIC_CONNECTION
  /\ connectResult.state = "resolved"
  /\ before.displayAddress # ""
  /\ before.displayAddress # displayAddress

\* The first hop displayAddress was last derived from: that of the stored
\* config of a static session, that of the config the connect() in flight
\* resolved for a dynamic one.
DerivedFrom ==
  IF type = STATIC_CONNECTION
  THEN staticTunnelConfig[1].firstHop
  ELSE tunnelConfig[1].firstHop
AddressDerived ==
  type = STATIC_CONNECTION \/ (type = DYNAMIC_CONNECTION /\ cpc = "start")

C12_StaticAddressFixed ==
  type = STATIC_CONNECTION =>
    displayAddress = AddressOf(accessKey.tunnelConfig[1])

\* C12 witness: on a static session a connect() has failed and a
\* disconnect() issued during it has succeeded.
C12_Witness ==
  /\ type = STATIC_CONNECTION
  /\ connectResult.state = "rejected"
  /\ disconnectResult.state = "resolved"
  /\ displayAddress # ""

\* C13: no step of connect() or disconnect() changes type, id, name, the
\* access key, the config location or the stored static config.
C13_OnlyAddressMutated == [][UNCHANGED fieldVars]_vars

\* C13 witness: a connect() has changed displayAddress, and id, name and
\* type are what they were when it was called.
C13_Witness ==
  /\ connectResult.state = "resolved"
  /\ displayAddress # before.displayAddress
  /\ [id |-> id, name |-> name, type |-> type]
       = [id |-> before.id, name |-> before.name, type |-> before.type]

\* C14: a checkRunning() that returns answers what the engine reports for
\* the id at that moment, and the call changes neither the engine's state
\* nor any field of the session.
C14_CheckRunningIsLive ==
  [][checked' # None =>
       /\ checked'[1] = running
       /\ running' = running
       /\ UNCHANGED <<fieldVars, displayAddress>>]_vars

\* C14 witness: after a disconnect() that failed, checkRunning() answers
\* that the tunnel is running, as the engine reports.
C14_Witness ==
  /\ checked = Some(TRUE)
  /\ disconnectResult.state = "rejected"

\* C15: when the engine's start rejects with a typed platform error,
\* connect() rejects with that very value, also when it carries an error
\* code.
C15_PlatformErrorRethrown ==
  ThrownBy("start") /\ instanceof(ThrownValue, "PlatformError") =>
    connectResult = Rejected(ThrownValue)

\* C15 witness: start rejected with a typed platform error of code 1.
C15_Witness ==
  /\ ThrownBy("start")
  /\ instanceof(ThrownValue, "PlatformError")
  /\ ThrownValue.errorCode = Some(1)
  /\ connectResult.state = "rejected"

\* The resolution of the latest connect() failed: at the fetch, on an empty
\* body, or in the parser.
ResolutionFailed ==
  /\ connectResult.state = "rejected"
  /\ \/ ThrownBy("fetch")
     \/ ThrownBy("parse")
     \/ (fetched # None /\ Blank(fetched[1]))

\* C16: a connect() invokes the engine's start at most once, for a dynamic
\* session only after its fetched body has parsed to a config and the
\* address has been derived from it; when the resolution fails the start is
\* not invoked and displayAddress is what it was before the call.
C16_ResolveThenAddressThenStart ==
  /\ calls.start <= 1
  /\ (type = DYNAMIC_CONNECTION /\ calls.start = 1 =>
        /\ fetched # None
        /\ DocumentOf(fetched[1]) # None
        /\ (cpc = "start" => displayAddress = AddressOf(tunnelConfig[1])))
  /\ (ResolutionFailed =>
        /\ calls.start = 0
        /\ displayAddress = before.displayAddress)

\* C16 witness: a connect() made while an address was displayed failed in
\* the parser.
C16_Witness ==
  /\ ThrownBy("parse")
  /\ connectResult.state = "rejected"
  /\ before.displayAddress # ""
  /\ displayAddress = before.displayAddress
  /\ calls.start = 0

\* C17: a connect() of a static session issues no fetch and submits the
\* session's id with the config of its access key; every config submitted
\* to the engine's start is a tunnel config with a first hop.
C17_StaticConfigPassedThrough ==
  /\ (type = STATIC_CONNECTION =>
        /\ calls.fetch = 0
        /\ fetched = None
        /\ (request # None =>
              /\ request[1].id = id
              /\ request[1].config = accessKey.tunnelConfig[1]))
  /\ (request # None =>
        /\ request[1].id = id
        /\ request[1].config \in TunnelConfigs
        /\ "firstHop" \in DOMAIN request[1].config)

\* C17 witness: a static session reconnects while its tunnel is running.
C17_Witness ==
  /\ type = STATIC_CONNECTION
  /\ cpc = "start"
  /\ running
  /\ request[1].config = ConfigB

\* C18: with serialized callers, after a successful connect() of a dynamic
\* session displayAddress is the address of the first hop of the config
\* that call submitted to the engine's start, and a disconnect() that is
\* in flight or has failed leaves it so.
C18_AddressMatchesSubmittedConfig ==
  type = DYNAMIC_CONNECTION =>
    /\ (connectResult.state = "resolved" =>
          /\ calls.start = 1
          /\ displayAddress = AddressOf(request[1].config))
    /\ (disconnectResult.state \in {"pending", "rejected"} /\ running =>
          displayAddress = AddressOf(request[1].config))

\* C18 witness: a disconnect() failed after a successful connect() to
\* ConfigB and the address is still that of ConfigB.
C18_Witness ==
  /\ type = DYNAMIC_CONNECTION
  /\ disconnectResult.state = "rejected"
  /\ running
  /\ displayAddress = "b.example:8080"

\* A connect() and a disconnect() issued during it have both completed.
Done(result) == result.state \in {"resolved", "rejected"}
BothDone ==
  /\ cpc = "idle" /\ dpc = "idle"
  /\ Done(connectResult) /\ Done(disconnectResult)

\* C19 as stated: once a connect() and a disconnect() issued during it have
\* both completed on a dynamic session, a running tunnel implies a
\* non-empty displayAddress, and a non-empty displayAddress implies that
\* the engine's last completed operation was a start.
C19_AddressAgreesWithEngine ==
  type = DYNAMIC_CONNECTION /\ BothDone =>
    /\ (running => displayAddress # "")
    /\ (displayAddress # "" => engineLast = "start")

\* C19 amended: once both have completed and the disconnect() succeeded, a
\* non-empty displayAddress implies that the engine's last completed
\* operation was a start.
C19_AddressImpliesStartLast ==
  type = DYNAMIC_CONNECTION /\ BothDone /\ disconnectResult.state = "resolved"
    => (displayAddress # "" => engineLast = "start")

\* C19 witness: the stop was served before the start; both calls have
\* completed and the address of the new config is displayed.
C19_Witness ==
  /\ type = DYNAMIC_CONNECTION
  /\ BothDone
  /\ disconnectResult.state = "resolved"
  /\ displayAddress # ""
  /\ engineLast = "start"

\* C20: whatever the engine's start rejects with, connect() rejects with
\* the typed platform error itself, with the error mapped from the code,
\* or with ProxyConnectionFailure.  The code breaks it for null/undefined.
C20_ClassificationTotal ==
  ThrownBy("start") =>
    /\ connectResult.state = "rejected"
    /\ \/ /\ instanceof(ThrownValue, "PlatformError")
          /\ ConnectError = ThrownValue
       \/ /\ ThrownValue.errorCode # None
          /\ ConnectError = fromErrorCode(ThrownValue.errorCode[1])
       \/ instanceof(ConnectError, "ProxyConnectionFailure")

====
